---- MODULE Spec2Model ----
(***************************************************************************)
(* Model of the CEAP Componenti backend (src/main.py, src/schemas.py):     *)
(* the three submission handlers (create_lead, create_contact,             *)
(* chatbot_lead), the catalog query (list_components) and the lazy store   *)
(* helpers they call.  The `database` module the helpers import is not     *)
(* part of the sources; its three entry points (db, create_document,       *)
(* get_documents) are modelled from the specification.                     *)
(*                                                                         *)
(* Python values: a str is a TLA+ string and None is the string "None";    *)
(* an Optional[int] / Optional[float] is <<>> for None and <<n>> for n;    *)
(* a dict with optional keys is a function whose DOMAIN is its key set.    *)
(***************************************************************************)
EXTENDS Integers, Sequences, FiniteSets, TLC

VARIABLES
  db,     \* the store handle exists (database.db is not None)
  store,  \* the documents persisted in each collection written to
  last,   \* the request answered last: what it did and its response
  pend    \* per slot, a submission between its parent write and its probe

vars == <<db, store, last, pend>>

None == "None"

\* ------------------------------------------------------------ bounds
MaxDocs  == 2      \* requests are issued while the store holds fewer documents
MaxLimit == 6      \* largest value of the limit query parameter tried
NSlots   == 2      \* requests handled concurrently (SpecConc)

Slots == 1 .. NSlots

Min(a, b) == IF a <= b THEN a ELSE b
Max(a, b) == IF a >= b THEN a ELSE b

\* ------------------------------------------------------------ inputs
GoodEmail == "a@b.it"
Emails    == {GoodEmail, "not-an-email"}

\* EmailStr: the value is accepted only when it is a well-formed address.
IsEmail(e) == e = GoodEmail

\* An uploaded file: its name, declared content type and the bytes read.
Files ==
  { [filename |-> "bom.xlsx", content_type |-> "application/vnd.ms-excel", content |-> <<80, 75>>] }

\* file is None
NoFile == [filename |-> None, content_type |-> None, content |-> <<>>]

\* `file is not None`
HasFile(f) == f.file # NoFile

\* Elements of a decoded items_json array: dicts with a subset of the keys.
RawItems ==
  { [code |-> "BSS138", quantity |-> 10],
    [quantity |-> 5],
    [code |-> "BSS138", quantity |-> 0],
    [code |-> "BSS138", target_price |-> 0 - 1] }

NoJson    == "absent"      \* items_json not supplied (None)
EmptyJson == "empty"       \* items_json = ""
BadJson   == "malformed"   \* items_json is not JSON, e.g. "[{"
ArrJson   == "array"       \* items_json is a JSON array of objects

ItemsJsons ==
  { [kind |-> NoJson, raw |-> <<>>], [kind |-> EmptyJson, raw |-> <<>>],
    [kind |-> BadJson, raw |-> <<>>], [kind |-> ArrJson, raw |-> <<>>] }
  \cup { [kind |-> ArrJson, raw |-> <<it>>] : it \in RawItems }

\* ------------------------------------------------------------ LeadItem
\* LeadItem(**it): code is required, quantity >= 1, target_price >= 0.
LeadItemValid(it) ==
  /\ "code" \in DOMAIN it
  /\ "quantity" \in DOMAIN it => it.quantity >= 1
  /\ "target_price" \in DOMAIN it => it.target_price >= 0

\* model_dump() of a LeadItem built from the dict it.
LeadItem(it) ==
  [ code             |-> it.code,
    quantity         |-> IF "quantity" \in DOMAIN it THEN <<it.quantity>> ELSE <<>>,
    brand_preference |-> None,
    target_price     |-> IF "target_price" \in DOMAIN it THEN <<it.target_price>> ELSE <<>>,
    notes            |-> None ]

\* ------------------------------------------------------------ the store
\* (the `database` module: db, create_document, get_documents)
Collections == {"lead", "contactmessage", "file"}

\* database.create_document(collection, data): without a handle it raises;
\* with a handle the insert either raises (fault) or persists the document
\* and returns its identifier, an opaque string unique in the collection.
StoreCreateDocument(st, handle, collection, data, fault) ==
  IF ~handle \/ fault
    THEN [raised |-> TRUE, id |-> None, store |-> st]
    ELSE [raised |-> FALSE,
          id     |-> "oid" \o ToString(Len(st[collection]) + 1),
          store  |-> [st EXCEPT ![collection] = Append(@, data)]]

\* The componentitem collection, populated out of band.
ComponentItems ==
  << [_id |-> 101, code |-> "BSS138", brand |-> "ON Semi", type |-> "MOSFET",
      mount |-> "SMD", package |-> "SOT-23"],
     [_id |-> 102, code |-> "IRF540", brand |-> "Vishay", type |-> "MOSFET",
      mount |-> "PTH", package |-> "TO-220"],
     [code |-> "NE555", brand |-> "TI", type |-> "IC", mount |-> "SMD",
      package |-> "SOIC-8"],
     [_id |-> 104, id |-> "stale", code |-> "LM317", brand |-> "TI", type |-> "IC",
      mount |-> "PTH", package |-> "TO-220"] >>

Matches(doc, filt) == \A k \in DOMAIN filt : k \in DOMAIN doc /\ doc[k] = filt[k]

RECURSIVE Find(_, _)
Find(docs, filt) ==
  IF docs = <<>> THEN <<>>
  ELSE IF Matches(Head(docs), filt)
         THEN <<Head(docs)>> \o Find(Tail(docs), filt)
         ELSE Find(Tail(docs), filt)

\* database.get_documents(collection, filt, limit): without a handle it
\* raises; with one it may raise (fault), or answer with the documents
\* matching the equality filter, at most limit of them for a positive limit
\* (what a non-positive limit returns is left open: any prefix of the
\* matches), or answer with a single mapping instead of a sequence.
StoreGetDocuments(handle, filt, limit) ==
  LET m == Find(ComponentItems, filt)
      raise == [raised |-> TRUE, shape |-> "list", docs |-> <<>>]
  IN  IF ~handle THEN {raise}
      ELSE {raise, [raised |-> FALSE, shape |-> "dict", docs |-> <<ComponentItems[1]>>]}
           \cup {[raised |-> FALSE, shape |-> "list", docs |-> SubSeq(m, 1, n)] :
                   n \in (IF limit > 0 THEN {Min(limit, Len(m))} ELSE 0 .. Len(m))}

\* ------------------------------------------------------------ lazy helpers
\* A probe that reports the store available whenever the import succeeded.
DbAvailableAlways(handle) == TRUE

\* _db_available(): db is not None; an import failure counts as False.
DbAvailable(handle) == handle

\* A writer that persists the document but loses the identifier.
CreateDocumentNoReturn(st, handle, collection, data, fault) ==
  LET r == StoreCreateDocument(st, handle, collection, data, fault)
  IN  [id |-> None, store |-> r.store, calls |-> <<collection>>]

\* _create_document(): the identifier, or None when anything raised.
\* calls lists the collections the store was asked to write to.
CreateDocument(st, handle, collection, data, fault) ==
  LET r == StoreCreateDocument(st, handle, collection, data, fault)
  IN  IF r.raised THEN [id |-> None, store |-> st, calls |-> <<collection>>]
      ELSE [id |-> r.id, store |-> r.store, calls |-> <<collection>>]

\* _get_documents(): the reader's result, or [] when anything raised.
\* A result is [shape, docs]; shape "dict" is a single mapping.
GetDocuments(handle, filt, limit) ==
  { IF r.raised THEN [shape |-> "list", docs |-> <<>>]
    ELSE [shape |-> r.shape, docs |-> r.docs] :
      r \in StoreGetDocuments(handle, filt, limit) }

\* An embedder that only summarises the upload, without writing it.
SaveUploadedFilePure(st, handle, file, bucket, fault) ==
  [store |-> st, calls |-> <<>>,
   meta  |-> [file_id |-> None, filename |-> file.filename,
              size |-> Len(file.content)]]

\* _save_uploaded_file(): writes the file document to the "file"
\* collection and returns the attachment summary.
SaveUploadedFile(st, handle, file, bucket, fault) ==
  LET doc == [bucket |-> bucket, filename |-> file.filename,
              content_type |-> file.content_type,
              size |-> Len(file.content), blob |-> file.content]
      w   == CreateDocument(st, handle, "file", doc, fault)
  IN  [store |-> w.store, calls |-> w.calls,
       meta  |-> [file_id |-> w.id, filename |-> file.filename,
                  size |-> Len(file.content)]]

\* doc["attachment"] = file_meta
WithAttachment(doc, meta) ==
  [k \in DOMAIN doc \cup {"attachment"} |->
     IF k = "attachment" THEN meta ELSE doc[k]]

\* ------------------------------------------------------------ responses
WarningText == "DB non configurato: richiesta ricevuta ma non salvata."

Saved(id) == [status |-> 200, body |-> [ok |-> TRUE, id |-> id]]
Accepted  == [status |-> 200, body |-> [ok |-> TRUE, id |-> None, warning |-> WarningText]]
Failed(detail) == [status |-> 500, body |-> [detail |-> detail]]
\* request validation of the declared parameters / body (before the handler)
Unprocessable == [status |-> 422, body |-> [detail |-> "validation error"]]
\* an exception that leaves the handler
Unhandled == [status |-> 500, body |-> [detail |-> "Internal Server Error"]]
NoResponse == [status |-> 0, body |-> [detail |-> "pending"]]

\* An outcome that takes "no identifier" to mean "no store" without probing.
OutcomeWithoutProbe(id, available, detail) ==
  IF id = None THEN Accepted ELSE Saved(id)

\* The three-way outcome after the parent write: the probe is consulted
\* only when the write returned no identifier.
Outcome(id, available, detail) ==
  IF id = None /\ DbAvailable(available) = FALSE THEN Accepted
  ELSE IF id = None THEN Failed(detail)
  ELSE Saved(id)

\* ------------------------------------------------------------ write phases
\* What a handler has done up to and including its parent write:
\*   store   the store afterwards
\*   writes  the collections a write was attempted on, in order
\*   id      the parent write's result (None if none / not attempted)
\*   early   the response already decided before the parent write, if any
Phase(st, writes, id, early, doc) ==
  [store |-> st, writes |-> writes, id |-> id, early |-> early, doc |-> doc]

NoDoc == [none |-> TRUE]

\* create_lead, lines 115-138
LeadPhase(st, handle, f, ffault, wfault) ==
  IF f.company = None \/ f.name = None \/ ~IsEmail(f.email)
    THEN Phase(st, <<>>, None, Unprocessable, NoDoc)
  ELSE IF f.items_json.kind = BadJson
    THEN Phase(st, <<>>, None, Unhandled, NoDoc)             \* json.loads raises
  ELSE IF f.items_json.kind = ArrJson
          /\ \E i \in DOMAIN f.items_json.raw : ~LeadItemValid(f.items_json.raw[i])
    THEN Phase(st, <<>>, None, Unhandled, NoDoc)             \* LeadItem(**it) raises
  ELSE
    LET items == IF f.items_json.kind = ArrJson
                   THEN [i \in DOMAIN f.items_json.raw |-> LeadItem(f.items_json.raw[i])]
                   ELSE <<>>
        up    == IF HasFile(f) THEN SaveUploadedFile(st, handle, f.file, "leads", ffault)
                 ELSE [store |-> st, calls |-> <<>>, meta |-> None]
        base  == [company |-> f.company, name |-> f.name, email |-> f.email,
                  phone |-> f.phone, items |-> items, message |-> f.message,
                  source |-> "webform"]
        doc   == IF HasFile(f) THEN WithAttachment(base, up.meta) ELSE base
        w     == CreateDocument(up.store, handle, "lead", doc, wfault)
    IN  Phase(w.store, up.calls \o w.calls, w.id, NoResponse, doc)

\* create_contact, lines 158-167
ContactPhase(st, handle, f, ffault, wfault) ==
  IF f.company = None \/ f.name = None \/ ~IsEmail(f.email) \/ f.message = None
    THEN Phase(st, <<>>, None, Unprocessable, NoDoc)
  ELSE
    LET up    == IF HasFile(f) THEN SaveUploadedFile(st, handle, f.file, "contacts", ffault)
                 ELSE [store |-> st, calls |-> <<>>, meta |-> None]
        base  == [company |-> f.company, name |-> f.name, email |-> f.email,
                  phone |-> f.phone, topic |-> f.topic, message |-> f.message]
        doc   == IF HasFile(f) THEN WithAttachment(base, up.meta) ELSE base
        w     == CreateDocument(up.store, handle, "contactmessage", doc, wfault)
    IN  Phase(w.store, up.calls \o w.calls, w.id, NoResponse, doc)

\* chatbot_lead, lines 220-222 (the body is validated as a ChatbotLead)
ChatbotPhase(st, handle, f, wfault) ==
  IF (f.email # None /\ ~IsEmail(f.email))
     \/ \E i \in DOMAIN f.items : ~LeadItemValid(f.items[i])
    THEN Phase(st, <<>>, None, Unprocessable, NoDoc)
  ELSE
    LET doc == [company |-> f.company, name |-> f.name, email |-> f.email,
                phone |-> f.phone, message |-> f.message,
                items |-> [i \in DOMAIN f.items |-> LeadItem(f.items[i])],
                channel |-> "chatbot"]
        w   == CreateDocument(st, handle, "lead", doc, wfault)
    IN  Phase(w.store, w.calls, w.id, NoResponse, doc)

\* ------------------------------------------------------------ request inputs
LeadForms ==
  [ company : {None, "ACME"}, name : {"Ann"}, email : {GoodEmail}, phone : {None},
    message : {None}, items_json : ItemsJsons, file : Files \cup {NoFile} ]

ContactForms ==
  [ company : {"ACME"}, name : {"Ann"}, email : Emails, phone : {None},
    topic : {"Generale"}, message : {None, "Salve"}, file : Files \cup {NoFile} ]

ChatbotBodies ==
  [ company : {None}, name : {None}, email : {None, "not-an-email"}, phone : {None},
    message : {None}, items : {<<>>} \cup {<<it>> : it \in RawItems} ]
  \cup
  [ company : {"ACME"}, name : {"Ann"}, email : {GoodEmail}, phone : {None},
    message : {None}, items : {<<>>} ]

\* ------------------------------------------------------------ observations
Idle == [kind |-> "none"]

\* What is recorded of a submission: its input, what its write phase did,
\* the handle its write and its probe saw, and its response.
Observation(kind, f, ph, wfault, atWrite, atProbe, resp) ==
  [ kind |-> kind, input |-> f, writes |-> ph.writes, id |-> ph.id,
    doc |-> ph.doc, early |-> ph.early, wfault |-> wfault,
    dbAtWrite |-> atWrite, dbAtProbe |-> atProbe, resp |-> resp ]

Detail(kind) ==
  IF kind = "contact" THEN "Errore nel salvataggio del messaggio"
  ELSE "Errore nel salvataggio della richiesta"

\* The response of a submission whose write phase is ph, probing `available`.
Respond(kind, ph, available) ==
  IF ph.early # NoResponse THEN ph.early
  ELSE Outcome(ph.id, available, Detail(kind))

HasRoom(st) == Len(st["lead"]) + Len(st["contactmessage"]) + Len(st["file"]) < MaxDocs

Init ==
  /\ db \in BOOLEAN
  /\ store = [c \in Collections |-> <<>>]
  /\ last = Idle
  /\ pend = [s \in Slots |-> Idle]

\* ------------------------------------------------------------ the handlers
\* POST /api/leads
CreateLead ==
  \E f \in LeadForms, ffault \in BOOLEAN, wfault \in BOOLEAN :
    /\ HasRoom(store)
    /\ HasFile(f) \/ ~ffault
    /\ LET ph == LeadPhase(store, db, f, ffault, wfault)
       IN  /\ store' = ph.store
           /\ last' = Observation("lead", f, ph, wfault, db, db, Respond("lead", ph, db))
    /\ UNCHANGED <<db, pend>>

\* POST /api/contact
CreateContact ==
  \E f \in ContactForms, ffault \in BOOLEAN, wfault \in BOOLEAN :
    /\ HasRoom(store)
    /\ HasFile(f) \/ ~ffault
    /\ LET ph == ContactPhase(store, db, f, ffault, wfault)
       IN  /\ store' = ph.store
           /\ last' = Observation("contact", f, ph, wfault, db, db, Respond("contact", ph, db))
    /\ UNCHANGED <<db, pend>>

\* POST /api/chatbot/lead
ChatbotLead ==
  \E f \in ChatbotBodies, wfault \in BOOLEAN :
    /\ HasRoom(store)
    /\ LET ph == ChatbotPhase(store, db, f, wfault)
       IN  /\ store' = ph.store
           /\ last' = Observation("chatbot", f, ph, wfault, db, db, Respond("chatbot", ph, db))
    /\ UNCHANGED <<db, pend>>

\* The store handle is provisioned or lost (between requests).
SetDb ==
  /\ db' = ~db
  /\ UNCHANGED <<store, last, pend>>

Next == CreateLead \/ CreateContact \/ ChatbotLead \/ SetDb

Spec == Init /\ [][Next]_vars

\* ------------------------------------------------------------ the catalog
\* The fallback catalog of list_components (lines 192-198).
Demo ==
  << [code |-> "BSS138", brand |-> "ON Semi", type |-> "MOSFET", mount |-> "SMD",
      package |-> "SOT-23", notes |-> "N-MOSFET 50V"],
     [code |-> "LM358", brand |-> "Texas Instruments", type |-> "IC", mount |-> "PTH",
      package |-> "DIP-8", notes |-> "Dual op-amp"],
     [code |-> "ATmega328P", brand |-> "Microchip", type |-> "Microcontrollore",
      mount |-> "SMD", package |-> "TQFP-32", notes |-> "8-bit MCU"],
     [code |-> "1N4148", brand |-> "Vishay", type |-> "Diodo", mount |-> "PTH",
      package |-> "DO-35", notes |-> "Small signal diode"],
     [code |-> "FUS-1206-1A", brand |-> "Littelfuse", type |-> "Fusibile",
      mount |-> "SMD", package |-> "1206", notes |-> "Fuse 1A"] >>

\* s[:limit]: a negative limit counts from the end of the list.
PySlice(s, limit) ==
  IF limit >= 0 THEN SubSeq(s, 1, Min(limit, Len(s)))
  ELSE SubSeq(s, 1, Max(Len(s) + limit, 0))

\* `if v:` for an Optional[str] parameter
Truthy(v) == v # None /\ v # ""

\* The equality filter built from the non-empty parameters (lines 184-188).
Filter(q) == [k \in {k \in {"type", "mount", "package", "brand"} : Truthy(q[k])} |-> q[k]]

\* A normalisation that adds id but leaves _id in place.
NormaliseKeepsInternal(it) ==
  IF "_id" \in DOMAIN it
    THEN [k \in DOMAIN it \cup {"id"} |->
            IF k = "id" THEN ToString(it["_id"]) ELSE it[k]]
    ELSE it

\* Lines 202-204 for one document: _id is renamed to id, as a string.
Normalise(it) ==
  IF "_id" \in DOMAIN it
    THEN [k \in (DOMAIN it \cup {"id"}) \ {"_id"} |->
            IF k = "id" THEN ToString(it["_id"]) ELSE it[k]]
    ELSE it

\* `not items or isinstance(items, dict)`
UseFallback(r) == r.docs = <<>> \/ r.shape = "dict"

\* The items of the response to a query whose reader result is r.
ResponseItems(r, limit) ==
  IF UseFallback(r) THEN PySlice(Demo, limit)
  ELSE PySlice([i \in DOMAIN r.docs |-> Normalise(r.docs[i])], limit)

Limits == (0 - 2) .. MaxLimit

Queries ==
  [ type : {None, "", "MOSFET", "IC", "Relay"}, mount : {None, "SMD"},
    package : {None, "TO-220"}, brand : {None, "TI"} ]

\* GET /api/components
ListComponents ==
  \E q \in Queries, limit \in Limits :
    \E r \in GetDocuments(db, Filter(q), limit) :
      /\ last' = [kind |-> "components", query |-> q, limit |-> limit,
                  dbAtRead |-> db, reader |-> r,
                  resp |-> [status |-> 200, body |-> [items |-> ResponseItems(r, limit)]]]
      /\ UNCHANGED <<db, store, pend>>

NextCatalog == ListComponents \/ SetDb

SpecCatalog == Init /\ [][NextCatalog]_vars

\* ------------------------------------------------------------ interleaved
\* The same handlers taken in two steps, the parent write and the probe,
\* with the store handle free to change in between (SetDbAnyTime).
ConcLeadForms    == {f \in LeadForms : f.company # None /\ f.items_json.kind = NoJson /\ ~HasFile(f)}
ConcContactForms == {f \in ContactForms : IsEmail(f.email) /\ f.message # None /\ ~HasFile(f)}
ConcChatbotBodies == {f \in ChatbotBodies : f.items = <<>>}

BeginLead(s) ==
  \E f \in ConcLeadForms, wfault \in BOOLEAN :
    /\ pend[s] = Idle /\ HasRoom(store)
    /\ LET ph == LeadPhase(store, db, f, FALSE, wfault)
       IN  /\ store' = ph.store
           /\ pend' = [pend EXCEPT ![s] = Observation("lead", f, ph, wfault, db, db, NoResponse)]
    /\ UNCHANGED <<db, last>>

BeginContact(s) ==
  \E f \in ConcContactForms, wfault \in BOOLEAN :
    /\ pend[s] = Idle /\ HasRoom(store)
    /\ LET ph == ContactPhase(store, db, f, FALSE, wfault)
       IN  /\ store' = ph.store
           /\ pend' = [pend EXCEPT ![s] = Observation("contact", f, ph, wfault, db, db, NoResponse)]
    /\ UNCHANGED <<db, last>>

BeginChatbot(s) ==
  \E f \in ConcChatbotBodies, wfault \in BOOLEAN :
    /\ pend[s] = Idle /\ HasRoom(store)
    /\ LET ph == ChatbotPhase(store, db, f, wfault)
       IN  /\ store' = ph.store
           /\ pend' = [pend EXCEPT ![s] = Observation("chatbot", f, ph, wfault, db, db, NoResponse)]
    /\ UNCHANGED <<db, last>>

\* The rest of the handler: the probe (if the write returned None) and
\* the response.
Finish(s) ==
  /\ pend[s] # Idle
  /\ last' = [pend[s] EXCEPT !.dbAtProbe = db,
                             !.resp = Respond(pend[s].kind, pend[s], db)]
  /\ pend' = [pend EXCEPT ![s] = Idle]
  /\ UNCHANGED <<db, store>>

SetDbAnyTime ==
  /\ db' = ~db
  /\ UNCHANGED <<store, last, pend>>

NextConc ==
  \/ \E s \in Slots : BeginLead(s)
  \/ \E s \in Slots : BeginContact(s)
  \/ \E s \in Slots : BeginChatbot(s)
  \/ \E s \in Slots : Finish(s)
  \/ SetDbAnyTime

SpecConc == Init /\ [][NextConc]_vars

\* ============================================================ properties
Submissions == {"lead", "contact", "chatbot"}

ParentCollection(kind) == IF kind = "contact" THEN "contactmessage" ELSE "lead"

\* The items of a lead form are acceptable: absent, or a JSON array whose
\* elements all have a code, a quantity >= 1 and a target_price >= 0.
ItemsAcceptable(j) ==
  /\ j.kind # BadJson
  /\ \A i \in DOMAIN j.raw :
       /\ "code" \in DOMAIN j.raw[i]
       /\ ("quantity" \in DOMAIN j.raw[i] => j.raw[i].quantity >= 1)
       /\ ("target_price" \in DOMAIN j.raw[i] => j.raw[i].target_price >= 0)

RequiredPresent(f) == f.company # None /\ f.name # None /\ f.email = GoodEmail

\* The submission recorded in o is a valid one of its kind.
ValidSubmission(o) ==
  CASE o.kind = "lead"    -> RequiredPresent(o.input) /\ ItemsAcceptable(o.input.items_json)
    [] o.kind = "contact" -> RequiredPresent(o.input) /\ o.input.message # None
    [] o.kind = "chatbot" -> /\ o.input.email \in {None, GoodEmail}
                             /\ ItemsAcceptable([kind |-> ArrJson, raw |-> o.input.items])
    [] OTHER -> FALSE

IsSuccess(r) == r.status = 200 /\ "ok" \in DOMAIN r.body /\ r.body.ok = TRUE

\* The handler of o attempted the write of its parent document.
WroteParent(o) ==
  \E i \in DOMAIN o.writes : o.writes[i] = ParentCollection(o.kind)

\* C1: a submission whose parent write returned no identifier while the
\* store handle existed is answered with HTTP 500, never with a success
\* (and so never with a success carrying a null identifier).
C1_FailedWriteIsServerError ==
  (last.kind \in Submissions /\ WroteParent(last)
     /\ last.id = None /\ last.dbAtWrite)
  => (last.resp.status = 500 /\ ~IsSuccess(last.resp))

C1_Witness ==
  /\ last.kind \in Submissions /\ WroteParent(last)
  /\ last.id = None /\ last.dbAtWrite /\ last.wfault
  /\ last.resp.status = 500

\* C2: a valid submission handled while no store handle exists is answered
\* with a success: ok = true, a null identifier and a warning string.
C2_NoStoreIsAcceptedWithWarning ==
  (last.kind \in Submissions /\ ValidSubmission(last)
     /\ ~last.dbAtWrite /\ ~last.dbAtProbe)
  => /\ last.resp.status = 200
     /\ DOMAIN last.resp.body = {"ok", "id", "warning"}
     /\ last.resp.body.ok = TRUE
     /\ last.resp.body.id = None
     /\ last.resp.body.warning \notin {None, ""}

C2_Witness ==
  /\ last.kind = "contact" /\ ValidSubmission(last)
  /\ ~last.dbAtWrite /\ ~last.dbAtProbe
  /\ last.writes # <<>> /\ last.id = None
  /\ HasFile(last.input)
  /\ last.resp.status = 200

\* C3: a valid submission whose parent write succeeds on an existing store
\* handle is answered with a success carrying the identifier the writer
\* returned for the parent document, and no warning field.
C3_SavedCarriesWriterId ==
  (last.kind \in Submissions /\ ValidSubmission(last)
     /\ last.dbAtWrite /\ ~last.wfault)
  => LET c == ParentCollection(last.kind)
     IN  /\ last.resp.status = 200
         /\ DOMAIN last.resp.body = {"ok", "id"}
         /\ last.resp.body.ok = TRUE
         /\ last.id # None
         /\ last.resp.body.id = last.id
         /\ \E i \in DOMAIN store[c] :
              /\ store[c][i] = last.doc
              /\ last.resp.body.id = "oid" \o ToString(i)

C3_Witness ==
  /\ last.kind = "lead" /\ ValidSubmission(last)
  /\ last.dbAtWrite /\ ~last.wfault
  /\ HasFile(last.input)
  /\ last.resp.status = 200 /\ last.resp.body.id = "oid2"

C5_BadItemsAreClientError ==
  (last.kind = "lead" /\ RequiredPresent(last.input)
     /\ ~ItemsAcceptable(last.input.items_json))
  => /\ last.writes = <<>>
     /\ last.resp.status >= 400 /\ last.resp.status < 500

\* C9: every document persisted in the lead and contactmessage collections
\* has all required fields of its schema non-null.
C9_PersistedHaveRequiredFields ==
  /\ \A i \in DOMAIN store["lead"] :
       LET d == store["lead"][i]
       IN  d.company # None /\ d.name # None /\ d.email # None
  /\ \A i \in DOMAIN store["contactmessage"] :
       LET d == store["contactmessage"][i]
       IN  d.company # None /\ d.name # None /\ d.email # None /\ d.message # None

\* C6: the response to a catalog query never has more items than limit,
\* for every integer limit, from the store and from the fallback catalog.
C6_LimitBoundsLength ==
  last.kind = "components" => Len(last.resp.body.items) <= last.limit

\* The first n elements of s (none for n <= 0).
FirstN(s, n) == SubSeq(s, 1, Min(Max(n, 0), Len(s)))

FallbackCodes == <<"BSS138", "LM358", "ATmega328P", "1N4148", "FUS-1206-1A">>

\* C7: when the reader result is empty or a single mapping, the response
\* is the five fallback records in order, truncated to limit; when it is a
\* non-empty sequence, every response item is one of the reader's documents
\* (in the reader's order) and no fallback record is substituted.
C7_FallbackExactlyWhenEmptyOrMapping ==
  last.kind = "components" =>
    LET items == last.resp.body.items
    IN  IF last.reader.docs = <<>> \/ last.reader.shape = "dict"
          THEN /\ Len(items) = Len(FirstN(FallbackCodes, last.limit))
               /\ \A i \in DOMAIN items :
                    items[i].code = FallbackCodes[i] /\ "notes" \in DOMAIN items[i]
          ELSE /\ Len(items) <= Len(last.reader.docs)
               /\ \A i \in DOMAIN items :
                    items[i].code = last.reader.docs[i].code /\ "notes" \notin DOMAIN items[i]

\* The string form of the store's internal identifiers.
StrOfId == [n \in {101, 102, 104} |-> CASE n = 101 -> "101" [] n = 102 -> "102" [] n = 104 -> "104"]

\* C8: no item of a catalog response has an _id field, and the item made
\* from a store document that has _id has id equal to the string form of
\* that _id.
C8_NoInternalIdLeaks ==
  last.kind = "components" =>
    \A i \in DOMAIN last.resp.body.items :
      LET it == last.resp.body.items[i]
      IN  /\ "_id" \notin DOMAIN it
          /\ (last.reader.shape = "list" /\ last.reader.docs # <<>>
                /\ "_id" \in DOMAIN last.reader.docs[i])
             => ("id" \in DOMAIN it /\ it.id = StrOfId[last.reader.docs[i]["_id"]])

C8_Witness ==
  /\ last.kind = "components" /\ last.reader.shape = "list"
  /\ Len(last.reader.docs) = 2 /\ last.limit = 2
  /\ last.reader.docs[2].code = "LM317" /\ last.reader.docs[2].id = "stale"
  /\ Len(last.resp.body.items) = 2
  /\ last.resp.body.items[2].id = "104"

\* C10: when the store handle may change at any moment, the probe of a
\* submission whose parent write failed sees the handle the write saw, and
\* a write that failed on an existing handle is answered with HTTP 500,
\* never with the accepted-without-persistence success.
C10_ProbeSeesWhatWriteSaw ==
  (last.kind \in Submissions /\ WroteParent(last) /\ last.id = None)
  => /\ last.dbAtProbe = last.dbAtWrite
     /\ last.dbAtWrite => (last.resp.status = 500 /\ "warning" \notin DOMAIN last.resp.body)

====
